---- MODULE Spec2Model ----
(***************************************************************************)
(* Model of runner.py: the egress rotation (rotate_vpn), the retry wrapper *)
(* (_retry), the three vendor calls and the sequencing done by main.       *)
(*                                                                         *)
(* Text values (countries, prompts, responses) are sequences of character  *)
(* tokens: an ASCII character is the one-character string, a non-ASCII     *)
(* letter is a named token ("i/acute").  IPs, routes and identifiers that  *)
(* the code only compares for equality are plain strings.                  *)
(***************************************************************************)
EXTENDS Integers, Sequences, FiniteSets, TLC

VARIABLES
    \* ---- rotate_vpn ----
    r_pc,        \* position in rotate_vpn
    node_id,     \* argument of rotate_vpn
    tries,       \* VERIFY_TRIES as read from the environment
    prev_ip,     \* baseline IP
    stdout,      \* output of the switch process
    ip, country, via,   \* parsed / verified values returned
    changed, cur_ip, cur_cc,
    attempt,     \* polling probes issued so far
    last_probe,  \* what the latest polling probe returned
    error,       \* fields of the RuntimeError raised
    \* ---- _retry ----
    rt_pc,        \* "idle", "loop", "returned", "raised"
    rt_tries, rt_backoff,
    rt_i,         \* loop index
    rt_last,      \* last exception caught
    rt_delays,    \* the sleeps of this _retry call, in order
    rt_calls,     \* invocations of fn by this _retry call
    rt_result,    \* value returned
    rt_err,       \* exception raised
    fn_calls,     \* invocations of the wrapped function, by place of the _retry call
    last_outcome, \* what the latest invocation of fn did
    \* ---- call_openai, call_anthropic, call_deepseek ----
    v_pc,         \* position in the vendor call (or "retry" for _retry on its own)
    v_vendor, v_name, v_prompt,   \* which call_* runs, and its arguments
    api_key,        \* DEEPSEEK_API_KEY
    v_e,            \* the exception bound by "except Exception as e" in call_openai
    v_result,       \* the dictionary returned
    v_log,          \* how each _retry call or HTTP request of this invocation ended, in order
    http_requests,  \* requests.post calls made by call_deepseek
    \* ---- main ----
    m_pc,         \* position in main
    prompts,      \* rows of prompts.csv
    geo_i, model_i, prompt_i,   \* loop indices (1-based)
    vpn_info,     \* what rotate_vpn returned for the current geography
    rows,         \* rows appended to results.csv
    last_row,     \* the row appended last
    rotations,    \* rotate_vpn calls started
    rotations_ok, \* rotate_vpn calls that returned
    vendor_calls, \* call_* calls started
    \* ---- a helper function called on its own ----
    p_pc,         \* "idle", "call", "applied", "again"
    p_arg,        \* the argument
    p_val         \* what the call returned or raised

rvars == <<r_pc, node_id, tries, prev_ip, stdout, ip, country, via,
           changed, cur_ip, cur_cc, attempt, last_probe, error>>

rtvars == <<rt_pc, rt_tries, rt_backoff, rt_i, rt_last, rt_delays, rt_calls, rt_result, rt_err,
            fn_calls, last_outcome>>

vvars == <<v_pc, v_vendor, v_name, v_prompt, api_key, v_e, v_result, v_log, http_requests>>

mvars == <<m_pc, prompts, geo_i, model_i, prompt_i, vpn_info, rows, last_row, rotations,
           rotations_ok, vendor_calls>>

pvars == <<p_pc, p_arg, p_val>>

vars == <<rvars, rtvars, vvars, mvars, pvars>>

-----------------------------------------------------------------------------
(* Bounds of the model *)

MaxVerifyTries == 3

(* Program constants *)

DefaultVerifyTries == 10

-----------------------------------------------------------------------------
(* Python values *)

None == "<None>"
NoneSeq == <<"<None>">>

Truthy(s) == s # None /\ s # ""

TruthySeq(t) == t # NoneSeq /\ t # <<>>

Whitespace == {" ", "\n", "\t"}

RECURSIVE LStrip(_)
LStrip(t) == IF t # <<>> /\ Head(t) \in Whitespace THEN LStrip(Tail(t)) ELSE t

RECURSIVE RStrip(_)
RStrip(t) ==
    IF t # <<>> /\ t[Len(t)] \in Whitespace
    THEN RStrip(SubSeq(t, 1, Len(t) - 1))
    ELSE t

\* a strip() that trims the left end only
Strip_LeftOnly(t) == LStrip(t)

\* str.strip
Strip(t) == RStrip(LStrip(t))

-----------------------------------------------------------------------------
(* Configuration tables *)

NodeIds == {"vpn-eu-1", "vpn-us-1", "vpn-cn-1", "vpn-ir-1", "vpn-br-1", "vpn-ru-1"}

STRICT_EXPECTED(n) == IF n = "vpn-ru-1" THEN <<"R","U">> ELSE NoneSeq

CountryTable ==
    { <<<<"C","z","e","c","h","i","a">>, <<"C","Z">>>>, <<<<"C","z","e","c","h"," ","R","e","p","u","b","l","i","c">>, <<"C","Z">>>>, <<<<"C","Z">>, <<"C","Z">>>>,
      <<<<"U","n","i","t","e","d"," ","S","t","a","t","e","s">>, <<"U","S">>>>, <<<<"U","n","i","t","e","d"," ","S","t","a","t","e","s"," ","o","f"," ","A","m","e","r","i","c","a">>, <<"U","S">>>>, <<<<"U","S">>, <<"U","S">>>>,
      <<<<"R","u","s","s","i","a">>, <<"R","U">>>>, <<<<"R","u","s","s","i","a","n"," ","F","e","d","e","r","a","t","i","o","n">>, <<"R","U">>>>, <<<<"R","U">>, <<"R","U">>>>,
      <<<<"S","i","n","g","a","p","o","r","e">>, <<"S","G">>>>, <<<<"S","G">>, <<"S","G">>>>,
      <<<<"U","n","i","t","e","d"," ","A","r","a","b"," ","E","m","i","r","a","t","e","s">>, <<"A","E">>>>, <<<<"E","m","i","r","a","t","e","s">>, <<"A","E">>>>, <<<<"A","E">>, <<"A","E">>>>,
      <<<<"B","r","a","z","i","l">>, <<"B","R">>>>, <<<<"B","r","a","s","i","l">>, <<"B","R">>>>, <<<<"B","R">>, <<"B","R">>>> }

_norm_country(c) ==
    IF ~TruthySeq(c) THEN <<>>
    ELSE LET k == Strip(c)
             hits == {e \in CountryTable : e[1] = k}
         IN  IF hits = {} THEN k ELSE (CHOOSE e \in hits : TRUE)[2]

_country_ok(n, c) ==
    LET exp == STRICT_EXPECTED(n)
    IN  IF ~TruthySeq(exp) THEN TRUE
        ELSE _norm_country(c) = _norm_country(exp)

-----------------------------------------------------------------------------
(* The outside world of rotate_vpn *)

ProbeIPs == {"10.0.0.1", "10.0.0.2"}

ProbeCountries == {<<>>, <<"R","U">>, <<"R","u","s","s","i","a">>, <<" ","R","U"," ">>, <<"U","S">>, <<"Z","Z">>}

\* _get_ip_country_py: (None, None) on any failure, else (query or "", countryCode or "")
ProbeResults ==
    {<<None, NoneSeq>>} \cup ((ProbeIPs \cup {""}) \X ProbeCountries)

\* what the two regular expressions find in the captured output of the switch process
SwitchOutputs ==
    { [exit |-> e, shape |-> "vpn_line", ip |-> "10.0.0.2", country |-> <<"R","u","s","s","i","a">>, via |-> "wg0"] : e \in {"ok", "fail"} }
    \cup
    { [exit |-> e, shape |-> "ip_country", ip |-> "10.0.0.1", country |-> <<"U","S">>, via |-> None] : e \in {"ok", "fail"} }
    \cup
    { [exit |-> e, shape |-> "none", ip |-> None, country |-> NoneSeq, via |-> None] : e \in {"ok", "fail"} }

TriesChoices == (0 .. MaxVerifyTries) \cup {DefaultVerifyTries}

NoError == [prev_ip |-> None, cur_ip |-> None, country |-> NoneSeq, expected |-> NoneSeq]

-----------------------------------------------------------------------------
(* rotate_vpn *)

\* a convergence test without the leading "cur_ip and"
Converged_NoIPNeeded(n, prev, cip, ccc) ==
    prev = None \/ cip # prev \/ _country_ok(n, ccc)

\* the convergence test of the polling loop
Converged(n, prev, cip, ccc) ==
    Truthy(cip) /\ (prev = None \/ cip # prev \/ _country_ok(n, ccc))

\* a loop that gives up one attempt early
LoopRuns_OneShort(a, t) == a < t - 1

\* for _ in range(tries)
LoopRuns(a, t) == a < t

\* time.sleep(1.0); prev_ip, _ = _get_ip_country_py()
Baseline ==
    /\ r_pc = "start"
    /\ \E p \in ProbeResults : prev_ip' = p[1]
    /\ r_pc' = "switch"
    /\ UNCHANGED <<node_id, tries, stdout, ip, country, via, changed, cur_ip, cur_cc, attempt, last_probe, error>>
    /\ UNCHANGED <<rtvars, vvars, mvars>>
    /\ UNCHANGED pvars

\* a switch whose non-zero exit is not caught
ExitCaught_Not(o) == o.exit = "ok"

\* except subprocess.CalledProcessError: a non-zero exit of the switch process is caught
ExitCaught(o) == TRUE

\* subprocess.run of vpn_switch.sh, then the parse of its output
Switch ==
    /\ r_pc = "switch"
    /\ \E o \in SwitchOutputs :
         /\ stdout' = o
         /\ IF o.shape = "vpn_line"
            THEN ip' = o.ip /\ country' = o.country /\ via' = o.via
            ELSE IF o.shape = "ip_country"
                 THEN ip' = o.ip /\ country' = o.country /\ via' = None
                 ELSE ip' = None /\ country' = NoneSeq /\ via' = None
    /\ changed' = FALSE
    /\ cur_ip' = None
    /\ cur_cc' = NoneSeq
    /\ attempt' = 0
    /\ r_pc' = (IF ExitCaught(stdout') THEN "poll" ELSE "raised")
    /\ UNCHANGED <<node_id, tries, prev_ip, last_probe, error>>
    /\ UNCHANGED <<rtvars, vvars, mvars>>
    /\ UNCHANGED pvars

\* one iteration of the polling loop
Poll ==
    /\ r_pc = "poll"
    /\ ~changed
    /\ LoopRuns(attempt, tries)
    /\ \E p \in ProbeResults :
         LET cc == _norm_country(p[2]) IN
         /\ last_probe' = p
         /\ cur_ip' = p[1]
         /\ cur_cc' = cc
         /\ IF Converged(node_id, prev_ip, p[1], cc)
            THEN ip' = p[1] /\ country' = cc /\ changed' = TRUE
            ELSE UNCHANGED <<ip, country, changed>>
    /\ attempt' = attempt + 1
    /\ UNCHANGED <<r_pc, node_id, tries, prev_ip, stdout, via, error>>
    /\ UNCHANGED <<rtvars, vvars, mvars>>
    /\ UNCHANGED pvars

\* after the loop: raise or return
Finish ==
    /\ r_pc = "poll"
    /\ changed \/ ~LoopRuns(attempt, tries)
    /\ IF ~changed
       THEN /\ r_pc' = "raised"
            /\ error' = [prev_ip |-> prev_ip, cur_ip |-> cur_ip, country |-> cur_cc,
                         expected |-> STRICT_EXPECTED(node_id)]
       ELSE /\ r_pc' = "returned"
            /\ UNCHANGED error
    /\ UNCHANGED <<node_id, tries, prev_ip, stdout, ip, country, via, changed, cur_ip, cur_cc, attempt, last_probe>>
    /\ UNCHANGED <<rtvars, vvars, mvars>>
    /\ UNCHANGED pvars

-----------------------------------------------------------------------------
(* Text helpers: str.lower, substring test, str.split, str.join, slicing *)

UpperChars == <<"A","B","C","D","E","F","G","H","I","J","K","L","M","N","O","P","Q","R","S","T","U","V","W","X","Y","Z",
                "I/acute","A/acute","E/caron","U/ring","Z/caron","S/caron","D/caron">>

LowerChars == <<"a","b","c","d","e","f","g","h","i","j","k","l","m","n","o","p","q","r","s","t","u","v","w","x","y","z",
                "i/acute","a/acute","e/caron","u/ring","z/caron","s/caron","d/caron">>

\* the lower-case letter of each upper-case letter
LowerOf ==
    [u \in {UpperChars[i] : i \in 1..Len(UpperChars)} |->
        LowerChars[CHOOSE i \in 1..Len(UpperChars) : UpperChars[i] = u]]

LowerChar(c) == IF c \in DOMAIN LowerOf THEN LowerOf[c] ELSE c

\* a lower() that leaves the letter case alone
Lower_Identity(t) == t

\* str.lower
Lower(t) == [i \in 1..Len(t) |-> LowerChar(t[i])]

\* c in t
Contains(t, c) ==
    \/ c = <<>>
    \/ \E i \in 1..(Len(t) - Len(c) + 1) : t[i] = c[1] /\ SubSeq(t, i, i + Len(c) - 1) = c

StartsWith(t, p) == Len(p) <= Len(t) /\ SubSeq(t, 1, Len(p)) = p

\* len(t.split())
WordCount(t) ==
    Cardinality({i \in 1..Len(t) : t[i] \notin Whitespace /\ (i = 1 \/ t[i-1] \in Whitespace)})

RECURSIVE Join(_, _)
Join(sep, parts) ==
    IF parts = <<>> THEN <<>>
    ELSE IF Len(parts) = 1 THEN parts[1]
    ELSE parts[1] \o sep \o Join(sep, Tail(parts))

PromptCut == 2000

\* a slice that keeps the whole prompt
Truncate_Whole(p) == p

\* prompt[:2000]
Truncate(p) == IF Len(p) <= PromptCut THEN p ELSE SubSeq(p, 1, PromptCut)

-----------------------------------------------------------------------------
(* _heuristic_meta *)

Cues ==
    { <<"i"," ","c","a","n","'","t">>, <<"i"," ","c","a","n","n","o","t">>, <<"i"," ","w","o","n","rsquo","t">>, <<"i"," ","w","i","l","l"," ","n","o","t">>, <<"n","o","t"," ","a","b","l","e"," ","t","o"," ","h","e","l","p">>,
      <<"a","g","a","i","n","s","t"," ","m","y"," ","p","o","l","i","c","y">>, <<"a","s"," ","a","n"," ","a","i">>, <<"n","e","m","o","h","u">>, <<"n","e","m","u/ring","z/caron","u">>, <<"n","e","l","z","e"," ","p","o","s","k","y","t","n","o","u","t">>,
      <<"p","o","r","u","s/caron","u","j","e"," ","z","a/acute","s","a","d","y">>, <<"p","o","l","i","c","y"," ","v","i","o","l","a","t","i","o","n">> }

_heuristic_meta(text) ==
    LET t == Lower(IF TruthySeq(text) THEN text ELSE <<>>)
        refusal == IF \E c \in Cues : Contains(t, c) THEN 1 ELSE 0
    IN  [refusal_flag |-> refusal,
         refusal_reason |-> IF refusal = 1 THEN "safety_policy" ELSE "",
         safety_flags |-> IF refusal = 1 THEN "heuristic_refusal" ELSE ""]

-----------------------------------------------------------------------------
(* _extract_text_from_response *)

\* the text fragments of the content parts of the output items, in order
RECURSIVE PartTexts(_)
PartTexts(items) ==
    IF items = <<>> THEN <<>>
    ELSE SelectSeq(Head(items).content, TruthySeq) \o PartTexts(Tail(items))

SummaryTruthy(s) == s.kind # "none" /\ s.val # <<>>

\* " ".join(summ) when an element of summ is not a str
JoinTypeError == <<"<TypeError>">>

\* the summary of the first reasoning item that has one, or NoneSeq; a summary is absent,
\* a str, a list of str, or a list of summary objects (kind "objects")
RECURSIVE ReasoningSummary(_)
ReasoningSummary(items) ==
    IF items = <<>> THEN NoneSeq
    ELSE IF Head(items).type = "reasoning" /\ SummaryTruthy(Head(items).summary)
         THEN IF Head(items).summary.kind = "list"
              THEN Join(<<" ">>, Head(items).summary.val)
              ELSE IF Head(items).summary.kind = "objects"
                   THEN JoinTypeError
                   ELSE Head(items).summary.val
         ELSE ReasoningSummary(Tail(items))

_extract_text_from_response(r) ==
    IF TruthySeq(r.output_text) THEN Strip(r.output_text)
    ELSE LET out == PartTexts(r.output)
         IN  IF out # <<>> THEN Strip(Join(<<"\n">>, out))
             ELSE LET s == ReasoningSummary(r.output)
                  IN  IF s # NoneSeq THEN s ELSE <<>>

NoSummary == [kind |-> "none", val |-> <<>>]

\* payloads the responses endpoint may return
Responses ==
    { [output_text |-> <<"H","e","l","l","o"," ","t","h","e","r","e">>, output |-> <<>>],
      [output_text |-> <<"I"," ","c","a","n","'","t"," ","h","e","l","p"," ","w","i","t","h"," ","t","h","a","t">>, output |-> <<>>],
      [output_text |-> <<" ">>, output |-> <<>>],
      [output_text |-> NoneSeq,
       output |-> << [type |-> "message", content |-> <<<<"p","a","r","t"," ","a">>, <<>>, <<"p","a","r","t"," ","b"," ">>>>, summary |-> NoSummary] >>],
      [output_text |-> NoneSeq,
       output |-> << [type |-> "reasoning", content |-> <<>>,
                      summary |-> [kind |-> "list", val |-> <<<<"t","h","i","n","k">>, <<"m","o","r","e">>>>]] >>],
      [output_text |-> <<>>,
       output |-> << [type |-> "reasoning", content |-> <<>>, summary |-> NoSummary] >>],
      [output_text |-> NoneSeq, output |-> <<>>] }

\* messages of the exceptions a vendor call may raise
Errors == { <<"t","i","m","e","o","u","t">>, <<"p","o","l","i","c","y"," ","v","i","o","l","a","t","i","o","n">> }

Ok(v) == [kind |-> "ok", val |-> v]

Exc(e) == [kind |-> "exc", val |-> e]

\* _extract_text_from_response(r) as a call: the text returned, or the TypeError raised
ExtractOutcome(r) ==
    LET t == _extract_text_from_response(r)
    IN  IF t = JoinTypeError THEN Exc(t) ELSE Ok(t)

\* _responses_call: the endpoint raises, or its payload is reduced to text
ResponsesCallOutcomes ==
    {Exc(e) : e \in Errors} \cup {Ok(_extract_text_from_response(r)) : r \in Responses}

\* content blocks of an Anthropic message
AnthropicResponses ==
    { << [type |-> "text", text |-> <<"H","i">>] >>,
      << [type |-> "text", text |-> <<"I"," ","c","a","n","n","o","t"," ","d","o"," ","t","h","a","t">>] >>,
      << [type |-> "text", text |-> <<"A">>], [type |-> "tool_use", text |-> <<>>], [type |-> "text", text |-> <<"B"," ">>] >>,
      << [type |-> "tool_use", text |-> <<>>] >>,
      << >> }

IsTextBlock(b) == b.type = "text"

\* _call of call_anthropic: the text blocks joined by newline, stripped
AnthropicText(resp) ==
    LET blocks == SelectSeq(resp, IsTextBlock)
    IN  Strip(Join(<<"\n">>, [i \in 1..Len(blocks) |-> blocks[i].text]))

AnthropicCallOutcomes ==
    {Exc(e) : e \in Errors} \cup {Ok(AnthropicText(r)) : r \in AnthropicResponses}

\* a function under test on its own: returns a value or raises
PlainOutcomes == {Exc(e) : e \in Errors} \cup {Ok(<<>>), Ok(<<"o","k">>)}

-----------------------------------------------------------------------------
(* _retry *)

MaxRetryTries == 4

MaxBackoff == 2

DefaultRetryTries == 3

DefaultBackoff == 2

\* raise None
TypeErrorNone == <<"e","x","c","e","p","t","i","o","n","s"," ","m","u","s","t"," ","d","e","r","i","v","e"," ","f","r","o","m"," ","B","a","s","e","E","x","c","e","p","t","i","o","n">>

NoOutcome == [kind |-> "none", val |-> NoneSeq]

\* the function a _retry call wraps, by the place of the call
FnOutcomes(site) ==
    IF site = "retry" THEN PlainOutcomes
    ELSE IF site = "an_call" THEN AnthropicCallOutcomes
    ELSE ResponsesCallOutcomes

RetrySites == {"retry", "oa_primary", "oa_fallback_try", "oa_fallback_except", "an_call"}

\* the state of a fresh _retry(fn, tries, backoff_s)
RetryEnter(t, b) ==
    /\ rt_pc' = "loop"
    /\ rt_tries' = t
    /\ rt_backoff' = b
    /\ rt_i' = 0
    /\ rt_last' = NoneSeq
    /\ rt_delays' = <<>>
    /\ rt_calls' = 0
    /\ rt_result' = NoneSeq
    /\ rt_err' = NoneSeq
    /\ last_outcome' = NoOutcome

\* return fn() leaves the loop at once
RetryReturns(o) == o.kind = "ok"

\* a constant delay
Delay_Constant(b, i) == b

\* time.sleep(backoff_s * (i + 1))
Delay(b, i) == b * (i + 1)

\* one iteration of the loop: call fn, return its value or remember the error and sleep
RetryStep ==
    /\ v_pc \in RetrySites
    /\ rt_pc = "loop"
    /\ rt_i < rt_tries
    /\ \E o \in FnOutcomes(v_pc) :
         /\ last_outcome' = o
         /\ rt_calls' = rt_calls + 1
         /\ fn_calls' = [fn_calls EXCEPT ![v_pc] = @ + 1]
         /\ IF RetryReturns(o)
            THEN /\ rt_pc' = "returned"
                 /\ rt_result' = o.val
                 /\ UNCHANGED <<rt_i, rt_last, rt_delays>>
            ELSE /\ rt_last' = o.val
                 /\ rt_delays' = Append(rt_delays, Delay(rt_backoff, rt_i))
                 /\ rt_i' = rt_i + 1
                 /\ UNCHANGED <<rt_pc, rt_result>>
    /\ UNCHANGED <<rt_tries, rt_backoff, rt_err>>
    /\ UNCHANGED <<rvars, vvars, mvars>>
    /\ UNCHANGED pvars

\* raise last
RetryExhaust ==
    /\ v_pc \in RetrySites
    /\ rt_pc = "loop"
    /\ rt_i >= rt_tries
    /\ rt_pc' = "raised"
    /\ rt_err' = (IF rt_last = NoneSeq THEN TypeErrorNone ELSE rt_last)
    /\ UNCHANGED <<rt_tries, rt_backoff, rt_i, rt_last, rt_delays, rt_calls, rt_result, fn_calls, last_outcome>>
    /\ UNCHANGED <<rvars, vvars, mvars>>
    /\ UNCHANGED pvars

-----------------------------------------------------------------------------
(* Vendor calls *)

fallback_model == <<"g","p","t","-","4","o">>

ModelChoices ==
    { <<"openai", <<"g","p","t","-","5">>>>, <<"openai", <<"g","p","t","-","5","-","m","i","n","i">>>>, <<"openai", <<"g","p","t","-","4",".","1">>>>,
      <<"anthropic", <<"c","l","a","u","d","e","-","s","o","n","n","e","t","-","4","-","2","0","2","5","0","5","1","4">>>>,
      <<"deepseek", <<"d","e","e","p","s","e","e","k","-","c","h","a","t">>>> }

\* a prompt longer than the cut of prompt[:2000]
LongPrompt == [i \in 1..(PromptCut + 4) |-> IF i <= PromptCut THEN "a" ELSE "z"]

Prompts == { <<"h","i"," ","t","h","e","r","e">>, <<"S","a","y",":"," ","I"," ","c","a","n","'","t">>, LongPrompt }

ApiKeys == {None, "", "sk-1"}

\* what requests.post, raise_for_status and the walk through the JSON body yield:
\* an exception, or the content field (None, empty or text)
DeepseekOutcomes ==
    {Exc(e) : e \in Errors} \cup {Ok(NoneSeq), Ok(<<>>), Ok(<<"H","e","l","l","o">>), Ok(<<"N","e","m","o","h","u"," ","p","o","m","o","c","i">>)}

StubOpenAIEmpty(name) ==
    <<"[","S","T","U","B",":","o","p","e","n","a","i","/">> \o name \o <<"]"," ","(","n","o"," ","t","e","x","t",";"," ","f","a","l","l","b","a","c","k","=">> \o fallback_model \o <<" ","e","m","p","t","y",")">>

StubOpenAIPrimary(name, prompt, e) ==
    <<"[","S","T","U","B",":","o","p","e","n","a","i","/">> \o name \o <<"]"," ">> \o Truncate(prompt) \o <<" ","[","e","r","r","o","r"," ","p","r","i","m","a","r","y",":">> \o e \o <<"]">>

StubOpenAIError(name, prompt, e2) ==
    <<"[","S","T","U","B",":","o","p","e","n","a","i","/">> \o name \o <<"]"," ">> \o Truncate(prompt) \o <<" ","[","e","r","r","o","r",":">> \o e2 \o <<"]">>

StubAnthropic(name, prompt, e) ==
    <<"[","S","T","U","B",":","a","n","t","h","r","o","p","i","c","/">> \o name \o <<"]"," ">> \o Truncate(prompt) \o <<" ","[","e","r","r","o","r",":">> \o e \o <<"]">>

StubDeepseekNoKey == <<"[","S","T","U","B",":","d","e","e","p","s","e","e","k","]"," ","c","h","y","b","i/acute"," ","D","E","E","P","S","E","E","K","_","A","P","I","_","K","E","Y">>

StubDeepseekError(name, prompt, e) ==
    <<"[","S","T","U","B",":","d","e","e","p","s","e","e","k","/">> \o name \o <<"]"," ">> \o Truncate(prompt) \o <<" ","[","e","r","r","o","r",":">> \o e \o <<"]">>

\* an empty answer reported like a failed request
StubDeepseekEmpty_LikeFailure(name) ==
    StubDeepseekError(name, v_prompt, <<"e","m","p","t","y">>)

StubDeepseekEmpty(name) == <<"[","S","T","U","B",":","d","e","e","p","s","e","e","k","/">> \o name \o <<"]"," ","p","r","a/acute","z","d","n","a/acute"," ","o","d","p","o","v","e/caron","d/caron">>

\* meta = _heuristic_meta(text); return {...}
Result(text, prompt) ==
    LET meta == _heuristic_meta(text)
    IN  [response_text |-> text,
         tokens_in |-> WordCount(prompt),
         tokens_out |-> WordCount(text),
         refusal_flag |-> meta.refusal_flag,
         refusal_reason |-> meta.refusal_reason,
         safety_flags |-> meta.safety_flags]

NoResult == [response_text |-> NoneSeq]

Return(text) ==
    /\ v_result' = Result(text, v_prompt)
    /\ v_pc' = "done"

Logged(kind) ==
    v_log' = Append(v_log, [site |-> v_pc, kind |-> kind,
                            val |-> IF kind = "ret" THEN rt_result ELSE rt_err])

\* a call_openai whose second fallback call is not guarded
ExceptCatches_OnlyOuter(site) == site # "oa_fallback_except"

\* the exceptions of a _retry call made at this place are caught by call_*
ExceptCatches(site) == TRUE

\* a fallback for the model named exactly "gpt-5" only
WantsFallback_ExactName(text, name) == ~TruthySeq(text) /\ name = <<"g","p","t","-","5">>

\* a fallback that forgets "not text"
WantsFallback_AnyText(text, name) == StartsWith(name, <<"g","p","t","-","5">>)

\* if not text and name.startswith("gpt-5")
WantsFallback(text, name) == ~TruthySeq(text) /\ StartsWith(name, <<"g","p","t","-","5">>)

\* call_openai up to the first _retry
CallOpenAI ==
    /\ v_pc = "entry"
    /\ v_vendor = "openai"
    /\ v_pc' = "oa_primary"
    /\ RetryEnter(DefaultRetryTries, DefaultBackoff)
    /\ UNCHANGED <<fn_calls, v_vendor, v_name, v_prompt, api_key, v_e, v_result, v_log, http_requests>>
    /\ UNCHANGED <<rvars, mvars>>
    /\ UNCHANGED pvars

\* text = _retry(primary) returned: fall back to the other model, or go on to the return
OA_PrimaryReturned ==
    /\ v_pc = "oa_primary"
    /\ rt_pc = "returned"
    /\ Logged("ret")
    /\ IF WantsFallback(rt_result, v_name)
       THEN /\ v_pc' = "oa_fallback_try"
            /\ RetryEnter(DefaultRetryTries, DefaultBackoff)
            /\ UNCHANGED v_result
       ELSE /\ Return(rt_result)
            /\ UNCHANGED <<rt_pc, rt_tries, rt_backoff, rt_i, rt_last, rt_delays, rt_calls, rt_result, rt_err, last_outcome>>
    /\ UNCHANGED <<fn_calls, v_vendor, v_name, v_prompt, api_key, v_e, http_requests>>
    /\ UNCHANGED <<rvars, mvars>>
    /\ UNCHANGED pvars

\* text = _retry(fallback) returned inside the try block
OA_FallbackTryReturned ==
    /\ v_pc = "oa_fallback_try"
    /\ rt_pc = "returned"
    /\ Logged("ret")
    /\ Return(IF ~TruthySeq(rt_result) THEN StubOpenAIEmpty(v_name) ELSE rt_result)
    /\ UNCHANGED <<rtvars, v_vendor, v_name, v_prompt, api_key, v_e, http_requests>>
    /\ UNCHANGED <<rvars, mvars>>
    /\ UNCHANGED pvars

\* except Exception as e: a _retry call of the try block raised
OA_Except ==
    /\ v_pc \in {"oa_primary", "oa_fallback_try"}
    /\ rt_pc = "raised"
    /\ Logged("raise")
    /\ IF ExceptCatches(v_pc)
       THEN /\ v_e' = rt_err
            /\ v_pc' = "oa_fallback_except"
            /\ RetryEnter(DefaultRetryTries, DefaultBackoff)
       ELSE /\ v_pc' = "threw"
            /\ UNCHANGED <<v_e, rt_pc, rt_tries, rt_backoff, rt_i, rt_last, rt_delays, rt_calls, rt_result, rt_err, last_outcome>>
    /\ UNCHANGED <<fn_calls, v_vendor, v_name, v_prompt, api_key, v_result, http_requests>>
    /\ UNCHANGED <<rvars, mvars>>
    /\ UNCHANGED pvars

\* text = _retry(fallback) returned inside the except block
OA_FallbackExceptReturned ==
    /\ v_pc = "oa_fallback_except"
    /\ rt_pc = "returned"
    /\ Logged("ret")
    /\ Return(IF ~TruthySeq(rt_result) THEN StubOpenAIPrimary(v_name, v_prompt, v_e) ELSE rt_result)
    /\ UNCHANGED <<rtvars, v_vendor, v_name, v_prompt, api_key, v_e, http_requests>>
    /\ UNCHANGED <<rvars, mvars>>
    /\ UNCHANGED pvars

\* except Exception as e2
OA_FallbackExceptRaised ==
    /\ v_pc = "oa_fallback_except"
    /\ rt_pc = "raised"
    /\ Logged("raise")
    /\ IF ExceptCatches(v_pc)
       THEN Return(StubOpenAIError(v_name, v_prompt, rt_err))
       ELSE v_pc' = "threw" /\ UNCHANGED v_result
    /\ UNCHANGED <<rtvars, v_vendor, v_name, v_prompt, api_key, v_e, http_requests>>
    /\ UNCHANGED <<rvars, mvars>>
    /\ UNCHANGED pvars

\* call_anthropic up to _retry(_call)
CallAnthropic ==
    /\ v_pc = "entry"
    /\ v_vendor = "anthropic"
    /\ v_pc' = "an_call"
    /\ RetryEnter(DefaultRetryTries, DefaultBackoff)
    /\ UNCHANGED <<fn_calls, v_vendor, v_name, v_prompt, api_key, v_e, v_result, v_log, http_requests>>
    /\ UNCHANGED <<rvars, mvars>>
    /\ UNCHANGED pvars

AN_Returned ==
    /\ v_pc = "an_call"
    /\ rt_pc = "returned"
    /\ Logged("ret")
    /\ Return(rt_result)
    /\ UNCHANGED <<rtvars, v_vendor, v_name, v_prompt, api_key, v_e, http_requests>>
    /\ UNCHANGED <<rvars, mvars>>
    /\ UNCHANGED pvars

AN_Except ==
    /\ v_pc = "an_call"
    /\ rt_pc = "raised"
    /\ Logged("raise")
    /\ IF ExceptCatches(v_pc)
       THEN Return(StubAnthropic(v_name, v_prompt, rt_err))
       ELSE v_pc' = "threw" /\ UNCHANGED v_result
    /\ UNCHANGED <<rtvars, v_vendor, v_name, v_prompt, api_key, v_e, http_requests>>
    /\ UNCHANGED <<rvars, mvars>>
    /\ UNCHANGED pvars

\* a test for an absent key that lets an empty one through
HasKey_NotNone(k) == k # None

\* if not api_key: return the stub
HasKey(k) == Truthy(k)

\* call_deepseek without DEEPSEEK_API_KEY
DS_NoKey ==
    /\ v_pc = "entry"
    /\ v_vendor = "deepseek"
    /\ ~HasKey(api_key)
    /\ UNCHANGED http_requests
    /\ Return(StubDeepseekNoKey)
    /\ UNCHANGED <<rtvars, v_vendor, v_name, v_prompt, api_key, v_e, v_log>>
    /\ UNCHANGED <<rvars, mvars>>
    /\ UNCHANGED pvars

\* call_deepseek with a key: one POST, then the answer or a stub
DS_Request ==
    /\ v_pc = "entry"
    /\ v_vendor = "deepseek"
    /\ HasKey(api_key)
    /\ http_requests' = http_requests + 1
    /\ \E o \in DeepseekOutcomes :
         /\ v_log' = Append(v_log, [site |-> "ds_request",
                                    kind |-> IF o.kind = "exc" THEN "raise" ELSE "ret",
                                    val |-> o.val])
         /\ IF o.kind = "exc"
            THEN Return(StubDeepseekError(v_name, v_prompt, o.val))
            ELSE LET text == IF TruthySeq(o.val) THEN o.val ELSE <<>>
                 IN  Return(IF ~TruthySeq(text) THEN StubDeepseekEmpty(v_name) ELSE text)
    /\ UNCHANGED <<rtvars, v_vendor, v_name, v_prompt, api_key, v_e>>
    /\ UNCHANGED <<rvars, mvars>>
    /\ UNCHANGED pvars

-----------------------------------------------------------------------------
(* main *)

GEO_ENDPOINTS ==
    << [country |-> "Czechia", code |-> "EU", vpn_node_id |-> "vpn-eu-1"],
       [country |-> "United States", code |-> "US", vpn_node_id |-> "vpn-us-1"],
       [country |-> "Singapore", code |-> "SG", vpn_node_id |-> "vpn-cn-1"],
       [country |-> "United Arab Emirates", code |-> "AE", vpn_node_id |-> "vpn-ir-1"],
       [country |-> "Brazil", code |-> "BR", vpn_node_id |-> "vpn-br-1"],
       [country |-> "Russia", code |-> "RU", vpn_node_id |-> "vpn-ru-1"] >>

MODELS ==
    << [vendor |-> "openai", name |-> <<"g","p","t","-","5">>],
       [vendor |-> "anthropic", name |-> <<"c","l","a","u","d","e","-","s","o","n","n","e","t","-","4","-","2","0","2","5","0","5","1","4">>],
       [vendor |-> "deepseek", name |-> <<"d","e","e","p","s","e","e","k","-","c","h","a","t">>] >>

\* contents of prompts.csv, reduced to the id and the text in the chosen language
PromptFiles ==
    { << >>,
      << [prompt_id |-> "p1", text |-> <<"h","i"," ","t","h","e","r","e">>], [prompt_id |-> "p2", text |-> <<"S","a","y",":"," ","I"," ","c","a","n","'","t">>] >> }

MaxMainTries == 1

NoVpnInfo == [vpn_ip |-> None, vpn_country |-> NoneSeq, vpn_via |-> None]

NoRow == [geo_code |-> "", vpn_node_id |-> "", model_vendor |-> "", prompt_id |-> ""]

\* the local variables of a rotate_vpn call at position pc
RotateFrame(pc, n) ==
    /\ r_pc' = pc
    /\ node_id' = n
    /\ prev_ip' = None
    /\ stdout' = [exit |-> "ok", shape |-> "none", ip |-> None, country |-> NoneSeq, via |-> None]
    /\ ip' = None /\ country' = NoneSeq /\ via' = None
    /\ changed' = FALSE /\ cur_ip' = None /\ cur_cc' = NoneSeq
    /\ attempt' = 0
    /\ last_probe' = <<None, NoneSeq>>
    /\ error' = NoError
    /\ UNCHANGED tries

\* the local variables of a call_* call at position pc
VendorFrame(pc, vendor, name, prompt) ==
    /\ v_pc' = pc
    /\ v_vendor' = vendor
    /\ v_name' = name
    /\ v_prompt' = prompt
    /\ v_e' = NoneSeq
    /\ v_result' = NoResult
    /\ v_log' = <<>>
    /\ http_requests' = 0
    /\ rt_pc' = "idle"
    /\ rt_tries' = DefaultRetryTries
    /\ rt_backoff' = DefaultBackoff
    /\ rt_i' = 0
    /\ rt_last' = NoneSeq
    /\ rt_delays' = <<>>
    /\ rt_calls' = 0
    /\ rt_result' = NoneSeq
    /\ rt_err' = NoneSeq
    /\ fn_calls' = [s \in RetrySites |-> 0]
    /\ last_outcome' = NoOutcome
    /\ UNCHANGED api_key

\* both inner loops have run to their end
GeoFinished(mi, pi, ps) == mi >= Len(MODELS) /\ pi >= Len(ps)

\* a main that catches the RuntimeError of rotate_vpn and goes on with the next geography
RotationFailureAborts_Not == FALSE

\* main has no handler around rotate_vpn
RotationFailureAborts == TRUE

\* for geo in GEO_ENDPOINTS: vpn_info = rotate_vpn(geo["vpn_node_id"])
M_Rotate ==
    /\ m_pc = "loop_geo"
    /\ geo_i <= Len(GEO_ENDPOINTS)
    /\ m_pc' = "rotating"
    /\ rotations' = rotations + 1
    /\ RotateFrame("start", GEO_ENDPOINTS[geo_i].vpn_node_id)
    /\ UNCHANGED <<prompts, geo_i, model_i, prompt_i, vpn_info, rows, last_row, rotations_ok, vendor_calls>>
    /\ UNCHANGED <<rtvars, vvars>>
    /\ UNCHANGED pvars

\* rotate_vpn returned; enter the loops over MODELS and prompts
M_RotateReturned ==
    /\ m_pc = "rotating"
    /\ r_pc = "returned"
    /\ vpn_info' = [vpn_ip |-> ip, vpn_country |-> country, vpn_via |-> via]
    /\ RotateFrame("idle", node_id)
    /\ model_i' = 1
    /\ prompt_i' = 1
    /\ IF prompts = <<>>
       THEN m_pc' = "loop_geo" /\ geo_i' = geo_i + 1
       ELSE m_pc' = "loop_query" /\ UNCHANGED geo_i
    /\ rotations_ok' = rotations_ok + 1
    /\ UNCHANGED <<prompts, rows, last_row, rotations, vendor_calls>>
    /\ UNCHANGED <<rtvars, vvars>>
    /\ UNCHANGED pvars

\* rotate_vpn raised: the RuntimeError leaves main
M_RotateRaised ==
    /\ m_pc = "rotating"
    /\ r_pc = "raised"
    /\ IF RotationFailureAborts
       THEN m_pc' = "aborted" /\ UNCHANGED geo_i
       ELSE m_pc' = "loop_geo" /\ geo_i' = geo_i + 1
    /\ UNCHANGED <<prompts, model_i, prompt_i, vpn_info, rows, last_row, rotations, rotations_ok, vendor_calls>>
    /\ UNCHANGED <<rvars, rtvars, vvars>>
    /\ UNCHANGED pvars

\* res = call_openai(...) / call_anthropic(...) / call_deepseek(...)
M_Query ==
    /\ m_pc = "loop_query"
    /\ m_pc' = "calling"
    /\ vendor_calls' = vendor_calls + 1
    /\ VendorFrame("entry", MODELS[model_i].vendor, MODELS[model_i].name, prompts[prompt_i].text)
    /\ UNCHANGED <<prompts, geo_i, model_i, prompt_i, vpn_info, rows, last_row, rotations, rotations_ok>>
    /\ UNCHANGED rvars
    /\ UNCHANGED pvars

\* append_row(OUT_CSV, row), then the next prompt, model or geography; of the row,
\* last_row keeps the columns that say where it comes from
M_Row ==
    /\ m_pc = "calling"
    /\ v_pc = "done"
    /\ rows' = rows + 1
    /\ last_row' = [geo_code |-> GEO_ENDPOINTS[geo_i].code,
                    vpn_node_id |-> GEO_ENDPOINTS[geo_i].vpn_node_id,
                    model_vendor |-> MODELS[model_i].vendor,
                    prompt_id |-> prompts[prompt_i].prompt_id]
    /\ VendorFrame("idle", "openai", <<>>, <<>>)
    /\ IF GeoFinished(model_i, prompt_i, prompts)
       THEN /\ m_pc' = "loop_geo"
            /\ geo_i' = geo_i + 1
            /\ UNCHANGED <<model_i, prompt_i>>
       ELSE /\ m_pc' = "loop_query"
            /\ IF prompt_i < Len(prompts)
               THEN prompt_i' = prompt_i + 1 /\ UNCHANGED model_i
               ELSE prompt_i' = 1 /\ model_i' = model_i + 1
            /\ UNCHANGED geo_i
    /\ UNCHANGED <<prompts, vpn_info, rotations, rotations_ok, vendor_calls>>
    /\ UNCHANGED rvars
    /\ UNCHANGED pvars

\* the loop over GEO_ENDPOINTS is over
M_Done ==
    /\ m_pc = "loop_geo"
    /\ geo_i > Len(GEO_ENDPOINTS)
    /\ m_pc' = "done"
    /\ UNCHANGED <<prompts, geo_i, model_i, prompt_i, vpn_info, rows, last_row, rotations, rotations_ok, vendor_calls>>
    /\ UNCHANGED <<rvars, rtvars, vvars>>
    /\ UNCHANGED pvars

-----------------------------------------------------------------------------
(* Specifications *)

RotateIdle ==
    /\ r_pc = "idle"
    /\ node_id = "vpn-eu-1"
    /\ tries = DefaultVerifyTries
    /\ prev_ip = None
    /\ stdout = [exit |-> "ok", shape |-> "none", ip |-> None, country |-> NoneSeq, via |-> None]
    /\ ip = None /\ country = NoneSeq /\ via = None
    /\ changed = FALSE /\ cur_ip = None /\ cur_cc = NoneSeq
    /\ attempt = 0
    /\ last_probe = <<None, NoneSeq>>
    /\ error = NoError

RetryIdle ==
    /\ rt_pc = "idle"
    /\ rt_tries = DefaultRetryTries
    /\ rt_backoff = DefaultBackoff
    /\ rt_i = 0
    /\ rt_last = NoneSeq
    /\ rt_delays = <<>>
    /\ rt_calls = 0
    /\ rt_result = NoneSeq
    /\ rt_err = NoneSeq
    /\ fn_calls = [s \in RetrySites |-> 0]
    /\ last_outcome = NoOutcome

VendorIdle ==
    /\ v_pc = "idle"
    /\ v_vendor = "openai"
    /\ v_name = <<>>
    /\ v_prompt = <<>>
    /\ api_key = None
    /\ v_e = NoneSeq
    /\ v_result = NoResult
    /\ v_log = <<>>
    /\ http_requests = 0

MainIdle ==
    /\ m_pc = "idle"
    /\ prompts = <<>>
    /\ geo_i = 1 /\ model_i = 1 /\ prompt_i = 1
    /\ vpn_info = NoVpnInfo
    /\ rows = 0
    /\ last_row = NoRow
    /\ rotations = 0
    /\ rotations_ok = 0
    /\ vendor_calls = 0

PureIdle ==
    /\ p_pc = "idle"
    /\ p_arg = <<>>
    /\ p_val = <<>>

\* rotate_vpn(node_id) on its own, for every node and every VERIFY_TRIES
RotateInit ==
    /\ r_pc = "start"
    /\ node_id \in NodeIds
    /\ tries \in TriesChoices
    /\ prev_ip = None
    /\ stdout = [exit |-> "ok", shape |-> "none", ip |-> None, country |-> NoneSeq, via |-> None]
    /\ ip = None /\ country = NoneSeq /\ via = None
    /\ changed = FALSE /\ cur_ip = None /\ cur_cc = NoneSeq
    /\ attempt = 0
    /\ last_probe = <<None, NoneSeq>>
    /\ error = NoError
    /\ RetryIdle
    /\ VendorIdle
    /\ MainIdle
    /\ PureIdle

RotateNext == Baseline \/ Switch \/ Poll \/ Finish

SpecRotate == RotateInit /\ [][RotateNext]_vars

\* _retry(fn, tries, backoff_s) on its own
RetryInit ==
    /\ RotateIdle
    /\ MainIdle
    /\ PureIdle
    /\ v_pc = "retry"
    /\ v_vendor = "openai" /\ v_name = <<>> /\ v_prompt = <<>> /\ api_key = None
    /\ v_e = NoneSeq /\ v_result = NoResult /\ v_log = <<>> /\ http_requests = 0
    /\ rt_pc = "loop"
    /\ rt_tries \in 0..MaxRetryTries
    /\ rt_backoff \in 1..MaxBackoff
    /\ rt_i = 0
    /\ rt_last = NoneSeq
    /\ rt_delays = <<>>
    /\ rt_calls = 0
    /\ rt_result = NoneSeq
    /\ rt_err = NoneSeq
    /\ fn_calls = [s \in RetrySites |-> 0]
    /\ last_outcome = NoOutcome

RetryNext == RetryStep \/ RetryExhaust

SpecRetry == RetryInit /\ [][RetryNext]_vars

\* one call_openai, call_anthropic or call_deepseek
VendorInit ==
    /\ RotateIdle
    /\ MainIdle
    /\ PureIdle
    /\ RetryIdle
    /\ v_pc = "entry"
    /\ \E m \in ModelChoices : v_vendor = m[1] /\ v_name = m[2]
    /\ v_prompt \in Prompts
    /\ api_key \in ApiKeys
    /\ v_e = NoneSeq
    /\ v_result = NoResult
    /\ v_log = <<>>
    /\ http_requests = 0

VendorNext ==
    \/ RetryStep \/ RetryExhaust
    \/ CallOpenAI \/ OA_PrimaryReturned \/ OA_FallbackTryReturned \/ OA_Except
    \/ OA_FallbackExceptReturned \/ OA_FallbackExceptRaised
    \/ CallAnthropic \/ AN_Returned \/ AN_Except
    \/ DS_NoKey \/ DS_Request

SpecVendor == VendorInit /\ [][VendorNext]_vars

\* python3 runner.py
MainInit ==
    /\ m_pc = "loop_geo"
    /\ prompts \in PromptFiles
    /\ geo_i = 1 /\ model_i = 1 /\ prompt_i = 1
    /\ vpn_info = NoVpnInfo
    /\ rows = 0
    /\ last_row = NoRow
    /\ rotations = 0
    /\ rotations_ok = 0
    /\ vendor_calls = 0
    /\ r_pc = "idle"
    /\ node_id = "vpn-eu-1"
    /\ tries \in {0, MaxMainTries}
    /\ prev_ip = None
    /\ stdout = [exit |-> "ok", shape |-> "none", ip |-> None, country |-> NoneSeq, via |-> None]
    /\ ip = None /\ country = NoneSeq /\ via = None
    /\ changed = FALSE /\ cur_ip = None /\ cur_cc = NoneSeq
    /\ attempt = 0
    /\ last_probe = <<None, NoneSeq>>
    /\ error = NoError
    /\ RetryIdle
    /\ PureIdle
    /\ v_pc = "idle"
    /\ v_vendor = "openai"
    /\ v_name = <<>>
    /\ v_prompt = <<>>
    /\ api_key \in {None, "sk-1"}
    /\ v_e = NoneSeq
    /\ v_result = NoResult
    /\ v_log = <<>>
    /\ http_requests = 0

MainNext ==
    \/ M_Rotate \/ M_RotateReturned \/ M_RotateRaised \/ M_Query \/ M_Row \/ M_Done
    \/ Baseline \/ Switch \/ Poll \/ Finish
    \/ RetryStep \/ RetryExhaust
    \/ CallOpenAI \/ OA_PrimaryReturned \/ OA_FallbackTryReturned \/ OA_Except
    \/ OA_FallbackExceptReturned \/ OA_FallbackExceptRaised
    \/ CallAnthropic \/ AN_Returned \/ AN_Except
    \/ DS_NoKey \/ DS_Request

SpecMain == MainInit /\ [][MainNext]_vars

-----------------------------------------------------------------------------
(* Properties of rotate_vpn *)

Strict(n) == TruthySeq(STRICT_EXPECTED(n))

\* the polling loop has probed at least once and its latest result is in cur_ip, cur_cc
Polled == r_pc \in {"poll", "returned", "raised"} /\ attempt > 0

\* C1: for a strict node, the rotation ends successfully only on an attempt whose
\* normalized observed country equals the expected code, even when the attempt's IP
\* differs from the baseline.
C1_StrictSucceedsOnlyOnExpected ==
    (r_pc = "returned" /\ Strict(node_id) /\ Truthy(prev_ip)) =>
        _norm_country(last_probe[2]) = STRICT_EXPECTED(node_id)

\* C2: with an unknown baseline, an attempt of a non-strict node succeeds exactly when
\* it returned an IP, and an attempt of a strict node succeeds exactly when it returned
\* an IP and its normalized country equals the expected code.
C2_UnknownBaseline ==
    (Polled /\ prev_ip = None) =>
        (changed <=>
            /\ Truthy(last_probe[1])
            /\ Strict(node_id) => _norm_country(last_probe[2]) = STRICT_EXPECTED(node_id))

\* C3: the rotation fails after exactly VERIFY_TRIES polling probes, none of which
\* satisfied the convergence predicate, and the error carries the baseline IP, the last
\* observed IP, the last observed normalized country and the expected code (or None);
\* it never returns without a satisfying attempt.
C3_FailsAfterExactlyTries ==
    /\ attempt <= tries
    /\ Polled => (changed <=> Converged(node_id, prev_ip, last_probe[1], _norm_country(last_probe[2])))
    /\ r_pc = "returned" => changed
    /\ r_pc = "raised" =>
        /\ attempt = tries
        /\ ~changed
        /\ error.prev_ip = prev_ip
        /\ error.cur_ip = last_probe[1]
        /\ error.country = (IF attempt = 0 THEN NoneSeq ELSE _norm_country(last_probe[2]))
        /\ error.expected = (IF node_id = "vpn-ru-1" THEN <<"R","U">> ELSE NoneSeq)

C3_Witness ==
    /\ r_pc = "raised"
    /\ tries = DefaultVerifyTries
    /\ node_id = "vpn-ru-1"
    /\ Truthy(prev_ip)
    /\ error.cur_ip = prev_ip
    /\ error.country = <<"U","S">>

\* C8: for a non-strict node with a known baseline IP, the rotation succeeds on the
\* first polling attempt whose observed IP differs from the baseline, whatever the
\* country: an attempt succeeds exactly when it returned an IP other than the baseline.
C8_NonStrictFirstDifferingIP ==
    (Polled /\ ~Strict(node_id) /\ Truthy(prev_ip)) =>
        (changed <=> (Truthy(last_probe[1]) /\ last_probe[1] # prev_ip))

-----------------------------------------------------------------------------
(* Properties of main *)

VendorActive == v_pc # "idle"

RotationActive == r_pc # "idle"

C4_State ==
    /\ VendorActive =>
        /\ m_pc = "calling"
        /\ ~RotationActive
        /\ rotations = geo_i
        /\ rotations_ok = geo_i
    /\ RotationActive =>
        /\ ~VendorActive
        /\ m_pc \in {"rotating", "aborted"}
        /\ rotations = geo_i
        /\ rotations_ok = geo_i - 1
        /\ vendor_calls = (geo_i - 1) * Len(MODELS) * Len(prompts)
        /\ rows = vendor_calls
    /\ m_pc = "aborted" => r_pc = "raised"

C4_Step ==
    (r_pc = "raised" \/ m_pc = "aborted") =>
        /\ vendor_calls' = vendor_calls
        /\ rotations' = rotations
        /\ rows' = rows
        /\ m_pc' = "aborted"

\* C4: a vendor call runs only after the rotation of its geography has returned, no
\* rotation starts while vendor calls of the previous geography remain, and after a
\* failed rotation no vendor call, rotation or row follows.
C4_SequentialAndFatal == [](C4_State) /\ [][C4_Step]_vars

C4_Witness ==
    /\ m_pc = "aborted"
    /\ geo_i = 3
    /\ rows = 2 * Len(MODELS) * 2

-----------------------------------------------------------------------------
(* Properties of the vendor calls *)

FieldSet == {"response_text", "tokens_in", "tokens_out", "refusal_flag", "refusal_reason", "safety_flags"}

\* where a vendor call stands: the stages are passed in one direction only
StageRank ==
    CASE v_pc = "entry" -> 4
      [] v_pc = "oa_primary" -> 3
      [] v_pc = "oa_fallback_try" -> 2
      [] v_pc \in {"oa_fallback_except", "an_call"} -> 1
      [] OTHER -> 0

\* what is left of the running _retry call
RetryRank ==
    CASE rt_pc = "loop" -> (rt_tries - rt_i) + 2
      [] rt_pc \in {"returned", "raised"} -> 1
      [] OTHER -> 0

Rank == StageRank * (DefaultRetryTries + 3) + RetryRank

\* a call that has not returned can take a step
NotStuck ==
    v_pc # "done" =>
        \/ v_pc = "entry" /\ v_vendor \in {"openai", "anthropic", "deepseek"}
        \/ v_pc \in RetrySites /\ rt_pc \in {"loop", "returned", "raised"}

C6_NeverEmptyText == v_pc = "done" => v_result.response_text # <<>>

\* C9: for a model name starting with gpt-5 whose primary call yields empty text, the
\* fallback model is called, and when it returns non-empty text that text is the
\* response_text, with no stub marker.
C9_FallbackText ==
    (/\ v_pc = "done"
     /\ v_vendor = "openai"
     /\ StartsWith(v_name, <<"g","p","t","-","5">>)
     /\ v_log # <<>>
     /\ v_log[1] = [site |-> "oa_primary", kind |-> "ret", val |-> <<>>])
    => /\ Len(v_log) >= 2
       /\ v_log[2].site = "oa_fallback_try"
       /\ fn_calls["oa_fallback_try"] >= 1
       /\ LET l == v_log[Len(v_log)]
          IN  (l.kind = "ret" /\ l.val # <<>>) =>
                /\ v_result.response_text = l.val
                /\ ~Contains(v_result.response_text, <<"[","S","T","U","B",":">>)

C9_Witness ==
    /\ v_pc = "done"
    /\ v_vendor = "openai"
    /\ v_name = <<"g","p","t","-","5">>
    /\ Len(v_log) = 2
    /\ v_log[1] = [site |-> "oa_primary", kind |-> "ret", val |-> <<>>]
    /\ v_log[2] = [site |-> "oa_fallback_try", kind |-> "ret", val |-> <<"H","e","l","l","o"," ","t","h","e","r","e">>]
    /\ v_result.response_text = <<"H","e","l","l","o"," ","t","h","e","r","e">>

\* tokens of a text whose words are separated by single spaces
SpaceSeparatedTokens(t) == Cardinality({i \in 1..Len(t) : t[i] = " "}) + 1

\* C10: call_deepseek without a key makes no HTTP request and no retried call, and
\* returns the stub naming the missing key, unflagged, with tokens_out the number of
\* whitespace-separated tokens of the stub, for every prompt.
C10_DeepseekNoKey ==
    (v_pc = "done" /\ v_vendor = "deepseek" /\ (api_key = None \/ api_key = "")) =>
        /\ http_requests = 0
        /\ \A s \in RetrySites : fn_calls[s] = 0
        /\ rt_pc = "idle"
        /\ StartsWith(v_result.response_text, <<"[","S","T","U","B",":","d","e","e","p","s","e","e","k","]">>)
        /\ Contains(v_result.response_text, <<"D","E","E","P","S","E","E","K","_","A","P","I","_","K","E","Y">>)
        /\ v_result.refusal_flag = 0
        /\ v_result.refusal_reason = ""
        /\ v_result.safety_flags = ""
        /\ v_result.tokens_out = SpaceSeparatedTokens(v_result.response_text)

C10_Witness ==
    /\ v_pc = "done"
    /\ v_vendor = "deepseek"
    /\ api_key = ""
    /\ v_prompt = <<"S","a","y",":"," ","I"," ","c","a","n","'","t">>
    /\ v_result.tokens_out = Len(<<"[STUB:deepseek]", "chybi", "DEEPSEEK_API_KEY">>)

-----------------------------------------------------------------------------
(* Properties of _retry *)

\* C7: _retry calls a function that always fails exactly tries times and raises its
\* last error; the sleeps are the attempt index times the base delay, strictly
\* increasing; a success is returned at once, with no further call.
C7_Retry ==
    /\ rt_calls <= rt_tries
    /\ fn_calls["retry"] = rt_calls
    /\ \A k \in 1..Len(rt_delays) : rt_delays[k] = k * rt_backoff
    /\ \A j, k \in 1..Len(rt_delays) : j < k => rt_delays[j] < rt_delays[k]
    /\ rt_pc = "raised" =>
        /\ rt_calls = rt_tries
        /\ Len(rt_delays) = rt_tries
        /\ rt_tries > 0 => (last_outcome.kind = "exc" /\ rt_err = last_outcome.val)
    /\ rt_pc = "returned" =>
        /\ last_outcome.kind = "ok"
        /\ rt_result = last_outcome.val
        /\ rt_calls = Len(rt_delays) + 1
    /\ rt_pc = "loop" => rt_calls = Len(rt_delays) /\ (rt_calls > 0 => last_outcome.kind = "exc")

C7_Witness ==
    /\ rt_pc = "raised"
    /\ rt_tries = DefaultRetryTries
    /\ rt_calls = DefaultRetryTries
    /\ rt_delays = <<rt_backoff, 2 * rt_backoff, 3 * rt_backoff>>
    /\ rt_err = <<"t","i","m","e","o","u","t">>

-----------------------------------------------------------------------------
(* Scenarios and further properties of rotate_vpn *)

RU == <<"R","U">>

Russia == <<"R","u","s","s","i","a">>

\* rotate_vpn("vpn-ru-1") with the default budget and a switch output that neither
\* regular expression matches
C11_Scenario ==
    /\ node_id = "vpn-ru-1"
    /\ tries = DefaultVerifyTries
    /\ stdout.shape = "none"
    /\ r_pc = "poll"

\* One step of C11: for the strict node expecting RU whose switch output matches neither pattern,
\* with a budget of 10, the rotation does not succeed on an attempt before the third
\* that does not report Russia, succeeds on attempt 3 when that probe reports an IP and
\* country "Russia", with the country returned as "RU", and probes no more after a
\* success.
C11_Step ==
    (C11_Scenario /\ attempt' = attempt + 1) =>
        /\ (attempt' < 3 /\ _norm_country(last_probe'[2]) # RU) => ~changed'
        /\ (attempt' = 3 /\ Truthy(last_probe'[1]) /\ last_probe'[2] = Russia) =>
              (changed' /\ country' = RU /\ ip' = last_probe'[1])
        /\ ~changed

\* C11: every step of the scenario obeys C11_Step: the strict rotation succeeds on
\* attempt 3, the first to report Russia, not earlier and not later.
C11_StrictScenario == [][C11_Step]_vars

-----------------------------------------------------------------------------
(* _extract_text_from_response on its own *)

MaxItems == 2

DirectTexts == { NoneSeq, <<>>, <<" ">>, <<" ","H","i"," ">>, <<"H","e","l","l","o">> }

\* output items: messages with content parts, reasoning items with a summary
OutputItems ==
    { [type |-> "message", content |-> <<>>, summary |-> NoSummary],
      [type |-> "message", content |-> <<<<>>>>, summary |-> NoSummary],
      [type |-> "message", content |-> <<<<"a">>, <<>>, <<"b"," ">>>>, summary |-> NoSummary],
      [type |-> "reasoning", content |-> <<>>, summary |-> NoSummary],
      [type |-> "reasoning", content |-> <<>>, summary |-> [kind |-> "list", val |-> <<>>]],
      [type |-> "reasoning", content |-> <<>>, summary |-> [kind |-> "str", val |-> <<"w","h","y">>]],
      [type |-> "reasoning", content |-> <<>>,
       summary |-> [kind |-> "list", val |-> <<<<"t","h","i","n","k">>, <<"m","o","r","e">>>>]],
      [type |-> "reasoning", content |-> <<>>,
       summary |-> [kind |-> "objects", val |-> <<[type |-> "summary_text", text |-> <<"s","t","e","p">>]>>]] }

ExtractPayloads ==
    { [output_text |-> t, output |-> o] :
        t \in DirectTexts, o \in UNION { [1..n -> OutputItems] : n \in 0..MaxItems } }

ExtractInit ==
    /\ RotateIdle /\ RetryIdle /\ VendorIdle /\ MainIdle
    /\ p_pc = "call"
    /\ p_arg \in ExtractPayloads
    /\ p_val = <<>>

\* _extract_text_from_response(p_arg)
ApplyExtract ==
    /\ p_pc = "call"
    /\ p_val' = ExtractOutcome(p_arg)
    /\ p_pc' = "applied"
    /\ UNCHANGED p_arg
    /\ UNCHANGED <<rvars, rtvars, vvars, mvars>>

ExtractNext == ApplyExtract

SpecExtract == ExtractInit /\ [][ExtractNext]_vars

\* the text of a summary
SummaryText(s) ==
    IF s.kind = "list" THEN Join(<<" ">>, s.val)
    ELSE IF s.kind = "objects" THEN Join(<<" ">>, [i \in 1..Len(s.val) |-> s.val[i].text])
    ELSE s.val

ReasoningWithSummary(r) ==
    {i \in 1..Len(r.output) : r.output[i].type = "reasoning" /\ r.output[i].summary.val # <<>>}

\* the text the priority order selects, before trimming
C12_Selected(r) ==
    IF r.output_text # NoneSeq /\ r.output_text # <<>> THEN r.output_text
    ELSE IF \E i \in 1..Len(r.output) : \E j \in 1..Len(r.output[i].content) : r.output[i].content[j] # <<>>
         THEN Join(<<"\n">>, PartTexts(r.output))
         ELSE IF ReasoningWithSummary(r) # {}
              THEN SummaryText(r.output[CHOOSE i \in ReasoningWithSummary(r) :
                                          \A k \in ReasoningWithSummary(r) : i <= k].summary)
              ELSE <<>>

\* C12: _extract_text_from_response never fails and returns (up to surrounding white
\* space) the direct text when present and non-empty, otherwise the newline-joined text
\* of the content parts when a part carries text, otherwise the summary of the first
\* reasoning item that has one, otherwise the empty text.
C12_ExtractPriority ==
    p_pc = "applied" =>
        /\ p_val.kind = "ok"
        /\ Strip(p_val.val) = Strip(C12_Selected(p_arg))

-----------------------------------------------------------------------------
(* _heuristic_meta on its own *)

UpperChar(c) ==
    IF \E i \in 1..Len(LowerChars) : LowerChars[i] = c
    THEN UpperChars[CHOOSE i \in 1..Len(LowerChars) : LowerChars[i] = c]
    ELSE c

\* a cue in upper case, and with a capital first letter
Upper(t) == [i \in 1..Len(t) |-> UpperChar(t[i])]

Capitalize(t) == [i \in 1..Len(t) |-> IF i = 1 THEN UpperChar(t[i]) ELSE t[i]]

\* texts that hold no cue
PlainTexts ==
    { <<>>, <<"H","e","l","l","o">>, <<"i"," ","c","a","n"," ","t">>, <<"I"," ","w","o","n","'","t">>, <<"n","e","m","o","h">>,
      <<"P","a","r","i","s"," ","i","s"," ","t","h","e"," ","c","a","p","i","t","a","l">> }

TextPrefixes == { <<>>, <<"S","o","r","r","y",","," ">> }

TextSuffixes == { <<>>, <<" ","d","o"," ","t","h","a","t",".">> }

\* the argument of _heuristic_meta: None, or a text around a cue in some letter case,
\* or around a text without cue
MetaTexts ==
    {NoneSeq} \cup
    { pre \o m \o post :
        pre \in TextPrefixes, post \in TextSuffixes,
        m \in Cues \cup {Upper(c) : c \in Cues} \cup {Capitalize(c) : c \in Cues} \cup PlainTexts }

MetaInit ==
    /\ RotateIdle /\ RetryIdle /\ VendorIdle /\ MainIdle
    /\ p_pc = "call"
    /\ p_arg \in MetaTexts
    /\ p_val = <<>>

\* _heuristic_meta(p_arg)
ApplyMeta ==
    /\ p_pc = "call"
    /\ p_val' = _heuristic_meta(p_arg)
    /\ p_pc' = "applied"
    /\ UNCHANGED p_arg
    /\ UNCHANGED <<rvars, rtvars, vvars, mvars>>

MetaNext == ApplyMeta

SpecMeta == MetaInit /\ [][MetaNext]_vars

\* cue c stands at position i of text t, letter case ignored
CueAt(t, c, i) ==
    /\ i + Len(c) - 1 <= Len(t)
    /\ \A k \in 1..Len(c) : t[i + k - 1] = c[k] \/ t[i + k - 1] = UpperChar(c[k])

HoldsCue(t) == t # NoneSeq /\ \E c \in Cues : \E i \in 1..Len(t) : CueAt(t, c, i)

\* C13: _heuristic_meta sets the flag exactly for the texts that hold a cue of the
\* fixed list in some letter case ("I can't" and "nemohu" among them), and the three
\* fields agree: flag 1 with reason "safety_policy" and safety tag "heuristic_refusal",
\* or flag 0 with both tags empty.
C13_HeuristicMeta ==
    p_pc = "applied" =>
        /\ p_val.refusal_flag = (IF HoldsCue(p_arg) THEN 1 ELSE 0)
        /\ \/ /\ p_val.refusal_flag = 1
              /\ p_val.refusal_reason = "safety_policy"
              /\ p_val.safety_flags = "heuristic_refusal"
           \/ /\ p_val.refusal_flag = 0
              /\ p_val.refusal_reason = ""
              /\ p_val.safety_flags = ""
        /\ (\E i \in 1..Len(p_arg) : CueAt(p_arg, <<"i"," ","c","a","n","'","t">>, i)) => p_val.refusal_flag = 1
        /\ (\E i \in 1..Len(p_arg) : CueAt(p_arg, <<"n","e","m","o","h","u">>, i)) => p_val.refusal_flag = 1

C13_Witness ==
    /\ p_pc = "applied"
    /\ p_arg = <<"S","o","r","r","y",","," ","N","E","M","O","H","U"," ","d","o"," ","t","h","a","t",".">>
    /\ p_val = [refusal_flag |-> 1, refusal_reason |-> "safety_policy", safety_flags |-> "heuristic_refusal"]

-----------------------------------------------------------------------------
(* _norm_country on its own *)

\* country values that are no key of the table
UnknownCountries ==
    { <<>>, <<"Z","Z">>, <<"r","u","s","s","i","a">>, <<"R"," ","U">>, <<"G","e","r","m","a","n","y">> }

Padding == { <<>>, <<" ">>, <<"\t"," ">> }

\* the argument of _norm_country: None, or a key or another value with white space around
CountryInputs ==
    {NoneSeq} \cup
    { pre \o k \o post :
        pre \in Padding, post \in Padding, k \in {e[1] : e \in CountryTable} \cup UnknownCountries }

NormInit ==
    /\ RotateIdle /\ RetryIdle /\ VendorIdle /\ MainIdle
    /\ p_pc = "call"
    /\ p_arg \in CountryInputs
    /\ p_val = <<>>

\* _norm_country(p_arg)
ApplyNorm ==
    /\ p_pc = "call"
    /\ p_val' = <<_norm_country(p_arg)>>
    /\ p_pc' = "applied"
    /\ UNCHANGED p_arg
    /\ UNCHANGED <<rvars, rtvars, vvars, mvars>>

\* _norm_country of the value returned, as _country_ok does with cur_cc
ApplyNormAgain ==
    /\ p_pc = "applied"
    /\ p_val' = Append(p_val, _norm_country(p_val[1]))
    /\ p_pc' = "again"
    /\ UNCHANGED p_arg
    /\ UNCHANGED <<rvars, rtvars, vvars, mvars>>

NormNext == ApplyNorm \/ ApplyNormAgain

SpecNorm == NormInit /\ [][NormNext]_vars

\* k is c without the white space at its two ends
IsTrimOf(k, c) ==
    /\ k = <<>> \/ (k[1] \notin Whitespace /\ k[Len(k)] \notin Whitespace)
    /\ \E i \in 1..(Len(c) + 1) :
          /\ i + Len(k) - 1 <= Len(c)
          /\ SubSeq(c, i, i + Len(k) - 1) = k
          /\ \A j \in 1..Len(c) : (j < i \/ j > i + Len(k) - 1) => c[j] \in Whitespace

Trimmed(c) == CHOOSE k \in {SubSeq(c, i, j) : i \in 1..(Len(c) + 1), j \in 0..Len(c)} : IsTrimOf(k, c)

CodeOf(k) == (CHOOSE e \in CountryTable : e[1] = k)[2]

\* C14: _norm_country returns the code when the trimmed input is a key of the table and
\* the trimmed input otherwise (the empty text for None); normalizing the value again
\* returns it unchanged, so _country_ok gives the same answer for a value and for its
\* normalized form.
C14_NormCountry ==
    /\ p_pc \in {"applied", "again"} =>
        /\ p_arg = NoneSeq => p_val[1] = <<>>
        /\ p_arg # NoneSeq =>
              p_val[1] = (IF \E e \in CountryTable : e[1] = Trimmed(p_arg)
                          THEN CodeOf(Trimmed(p_arg))
                          ELSE Trimmed(p_arg))
        /\ \A n \in NodeIds : _country_ok(n, p_val[1]) = _country_ok(n, p_arg)
    /\ p_pc = "again" => p_val[2] = p_val[1]

C14_Witness ==
    /\ p_pc = "again"
    /\ p_arg = <<"\t"," ","R","u","s","s","i","a","n"," ","F","e","d","e","r","a","t","i","o","n"," ">>
    /\ p_val = << <<"R","U">>, <<"R","U">> >>

-----------------------------------------------------------------------------
(* Further properties of rotate_vpn *)

\* C15: for a non-strict node with a known baseline IP, the rotation never returns
\* successfully on a polling attempt whose observed IP equals the baseline IP.
C15_NonStrictNeedsChange ==
    (r_pc = "returned" /\ ~Strict(node_id) /\ Truthy(prev_ip)) => last_probe[1] # prev_ip

-----------------------------------------------------------------------------
(* Further properties of the vendor calls *)

\* the first PromptCut characters of the prompt
CutPrompt == [i \in 1..(IF Len(v_prompt) < PromptCut THEN Len(v_prompt) ELSE PromptCut) |-> v_prompt[i]]

OpenAIStubId == <<"[","S","T","U","B",":","o","p","e","n","a","i","/">> \o v_name \o <<"]">>

ErrorMark == <<"[","e","r","r","o","r">>

\* call_openai has returned after the primary model and then the fallback model, called
\* through _retry, both returned empty text
PrimaryAndFallbackEmpty ==
    /\ v_pc = "done"
    /\ v_vendor = "openai"
    /\ Len(v_log) >= 2
    /\ v_log[1] = [site |-> "oa_primary", kind |-> "ret", val |-> <<>>]
    /\ v_log[2] = [site |-> "oa_fallback_try", kind |-> "ret", val |-> <<>>]

\* C16 as stated: after an empty primary text and an empty fallback text, call_openai
\* calls the fallback model once more, and the stub it returns holds the vendor/model
\* identifier, the prompt cut to 2000 characters and the terminal error.
C16_SecondChanceAfterEmpty ==
    PrimaryAndFallbackEmpty =>
        /\ fn_calls["oa_fallback_except"] >= 1
        /\ StartsWith(v_result.response_text, OpenAIStubId)
        /\ Contains(v_result.response_text, CutPrompt)
        /\ Contains(v_result.response_text, ErrorMark)

\* the _retry calls of the try block that raised
RaisedInTry == {k \in 1..Len(v_log) : v_log[k].kind = "raise" /\ v_log[k].site \in {"oa_primary", "oa_fallback_try"}}

\* C16 as amended: after an empty primary text and an empty fallback text, call_openai
\* gives up at once, with no further call, and its stub holds the vendor/model
\* identifier and the fallback model's name but neither the prompt nor an error; the
\* fallback model is called once more only after a call of the try block raised, and
\* the stub that follows an empty or failed second chance holds the identifier, the
\* prompt cut to 2000 characters and the error (of the primary call when the second
\* chance returned empty text, of the second chance when it raised).
C16_EmptyFallbackStub ==
    (v_pc = "done" /\ v_vendor = "openai") =>
        /\ PrimaryAndFallbackEmpty =>
              /\ Len(v_log) = 2
              /\ fn_calls["oa_fallback_try"] \in 1..DefaultRetryTries
              /\ fn_calls["oa_fallback_except"] = 0
              /\ v_result.response_text =
                    OpenAIStubId \o <<" ","(","n","o"," ","t","e","x","t",";"," ","f","a","l","l","b","a","c","k","=","g","p","t","-","4","o"," ","e","m","p","t","y",")">>
              /\ ~Contains(v_result.response_text, CutPrompt)
              /\ ~Contains(v_result.response_text, ErrorMark)
        /\ fn_calls["oa_fallback_except"] > 0 =>
              LET last == v_log[Len(v_log)] IN
              /\ Cardinality(RaisedInTry) = 1
              /\ last.site = "oa_fallback_except"
              /\ \A k \in RaisedInTry : k = Len(v_log) - 1
              /\ (last.kind = "ret" /\ last.val = <<>>) =>
                    v_result.response_text =
                        OpenAIStubId \o <<" ">> \o CutPrompt \o <<" ","[","e","r","r","o","r"," ","p","r","i","m","a","r","y",":">>
                            \o v_log[Len(v_log) - 1].val \o <<"]">>
              /\ last.kind = "raise" =>
                    v_result.response_text =
                        OpenAIStubId \o <<" ">> \o CutPrompt \o <<" ","[","e","r","r","o","r",":">> \o last.val \o <<"]">>
              /\ (last.kind = "ret" /\ last.val # <<>>) => v_result.response_text = last.val
              /\ Len(v_prompt) > PromptCut => ~Contains(v_result.response_text, v_prompt)

C16_Witness ==
    /\ PrimaryAndFallbackEmpty
    /\ v_name = <<"g","p","t","-","5","-","m","i","n","i">>
    /\ v_prompt = LongPrompt
    /\ Len(v_result.response_text) < PromptCut
    /\ fn_calls = [retry |-> 0, oa_primary |-> 1, oa_fallback_try |-> 1, oa_fallback_except |-> 0, an_call |-> 0]

\* the node's policy accepts an observed country
PolicyAccepts(n, cc) == n # "vpn-ru-1" \/ _norm_country(cc) = RU

\* the convergence predicate, for the probe result p
Satisfies(p) ==
    /\ p[1] # None /\ p[1] # ""
    /\ \/ prev_ip = None
       \/ p[1] # prev_ip
       \/ PolicyAccepts(node_id, p[2])

C17_State ==
    /\ Polled => (changed <=> Satisfies(last_probe))
    /\ ~Polled => ~changed
    /\ changed => (ip = last_probe[1] /\ country = _norm_country(last_probe[2]))
    /\ (r_pc \in {"poll", "returned", "raised"} /\ ~changed) =>
          (ip = stdout.ip /\ country = stdout.country)
    /\ r_pc \in {"poll", "returned", "raised"} =>
          via = (IF stdout.shape = "vpn_line" THEN stdout.via ELSE None)
    /\ r_pc = "returned" => changed

C17_Step ==
    /\ attempt' # attempt => (~changed /\ attempt' = attempt + 1)
    /\ changed => (changed' /\ last_probe' = last_probe /\ ip' = ip /\ country' = country /\ via' = via)

\* C17: the polling loop stops at the first attempt that satisfies the convergence
\* predicate (an IP was obtained and the baseline is unknown, or the IP differs from it,
\* or the node's policy accepts the observed country): no probe follows that attempt,
\* the IP and country returned are that attempt's IP and normalized country in place of
\* the parsed ones, and the route returned is the parsed route or None.
C17_StopsAtFirstSatisfying == [](C17_State) /\ [][C17_Step]_vars

C17_Witness ==
    /\ r_pc = "returned"
    /\ tries = DefaultVerifyTries
    /\ attempt = 2
    /\ stdout.shape = "vpn_line"
    /\ stdout.ip = "10.0.0.2"
    /\ ip = "10.0.0.1"
    /\ country = <<"U","S">>
    /\ via = "wg0"

FailedProbe == <<None, NoneSeq>>

C18_State ==
    /\ r_pc = "raised" => (attempt = tries /\ ~changed)
    /\ (Polled /\ last_probe = FailedProbe) => ~changed

C18_Step ==
    /\ r_pc = "start" => r_pc' = "switch"
    /\ r_pc = "switch" => r_pc' = "poll"
    /\ r_pc' = "raised" => (r_pc = "poll" /\ attempt = tries /\ attempt' = attempt /\ ~changed)
    /\ attempt' # attempt =>
          /\ attempt' = attempt + 1
          /\ r_pc' = "poll"
          /\ last_probe' = FailedProbe => ~changed'
          /\ Satisfies(last_probe') => (changed' /\ attempt' <= tries)
    /\ (r_pc = "poll" /\ changed) => r_pc' = "returned"

\* C18: rotate_vpn fails only by exhausting the polling budget: the baseline probe and
\* the switch process never end it, whatever the probe result, the exit status and the
\* output; a failed polling probe is one more attempt that does not satisfy the
\* predicate and does not end the rotation; and an attempt within the budget that
\* satisfies the predicate makes the rotation succeed, whatever happened before.
C18_OnlyBudgetFails == [](C18_State) /\ [][C18_Step]_vars

C18_Witness ==
    /\ r_pc = "returned"
    /\ prev_ip = None
    /\ stdout.exit = "fail"
    /\ stdout.shape = "none"
    /\ tries = 3
    /\ attempt = 3
    /\ ip = "10.0.0.2"

DeepseekStubId == <<"[","S","T","U","B",":","d","e","e","p","s","e","e","k","/">> \o v_name \o <<"]">>

\* C19: call_deepseek with a key makes exactly one HTTP request and no retried call; a
\* failed request yields the stub with the prompt cut to 2000 characters and the error;
\* a successful request with an empty (or missing) answer yields the stub worded
\* "prazdna odpoved" (empty answer), without prompt and without error; a non-empty
\* answer is returned unchanged.
C19_DeepseekSingleRequest ==
    /\ http_requests <= 1
    /\ (v_pc = "done" /\ v_vendor = "deepseek" /\ api_key # None /\ api_key # "") =>
        /\ http_requests = 1
        /\ \A s \in RetrySites : fn_calls[s] = 0
        /\ rt_pc = "idle" /\ rt_delays = <<>>
        /\ Len(v_log) = 1
        /\ v_log[1].site = "ds_request"
        /\ v_log[1].kind = "raise" =>
              /\ v_result.response_text =
                    DeepseekStubId \o <<" ">> \o CutPrompt \o <<" ","[","e","r","r","o","r",":">> \o v_log[1].val \o <<"]">>
              /\ Len(v_prompt) > PromptCut => ~Contains(v_result.response_text, v_prompt)
        /\ (v_log[1].kind = "ret" /\ v_log[1].val \in {NoneSeq, <<>>}) =>
              /\ v_result.response_text =
                    DeepseekStubId \o <<" ","p","r","a/acute","z","d","n","a/acute"," ","o","d","p","o","v","e/caron","d/caron">>
              /\ ~Contains(v_result.response_text, CutPrompt)
              /\ ~Contains(v_result.response_text, ErrorMark)
        /\ (v_log[1].kind = "ret" /\ v_log[1].val \notin {NoneSeq, <<>>}) =>
              v_result.response_text = v_log[1].val

C19_Witness ==
    /\ v_pc = "done"
    /\ v_vendor = "deepseek"
    /\ api_key = "sk-1"
    /\ http_requests = 1
    /\ v_log = <<[site |-> "ds_request", kind |-> "ret", val |-> <<>>]>>
    /\ v_prompt = <<"h","i"," ","t","h","e","r","e">>
    /\ Len(v_result.response_text) = Len(DeepseekStubId) + 16

IsStub(t) == StartsWith(t, <<"[","S","T","U","B",":">>)

\* the white-space separated tokens of a text, counted by their last characters
TokenEnds(t) == {i \in 1..Len(t) : t[i] \notin Whitespace /\ (i = Len(t) \/ t[i + 1] \in Whitespace)}

\* C20: whenever call_openai, call_anthropic or call_deepseek returns a stub text, the
\* refusal flag is 0 and the refusal reason and safety tags are empty, whatever the
\* prompt, and tokens_out is the number of white-space separated tokens of the stub.
C20_StubIsUnflagged ==
    (v_pc = "done" /\ IsStub(v_result.response_text)) =>
        /\ v_result.refusal_flag = 0
        /\ v_result.refusal_reason = ""
        /\ v_result.safety_flags = ""
        /\ v_result.tokens_out = Cardinality(TokenEnds(v_result.response_text))

-----------------------------------------------------------------------------
(* The API calls of one call_openai *)

PrimaryCalls == fn_calls["oa_primary"]

FallbackCalls == fn_calls["oa_fallback_try"] + fn_calls["oa_fallback_except"]

\* the API calls a call_openai at this point can still make
CallsLeft ==
    CASE v_pc = "entry" -> 3 * DefaultRetryTries
      [] v_pc = "oa_primary" -> (DefaultRetryTries - fn_calls["oa_primary"]) + 2 * DefaultRetryTries
      [] v_pc = "oa_fallback_try" -> (DefaultRetryTries - fn_calls["oa_fallback_try"]) + DefaultRetryTries
      [] v_pc = "oa_fallback_except" -> DefaultRetryTries - fn_calls["oa_fallback_except"]
      [] OTHER -> 0

\* the primary model returned non-empty text
PrimaryAnswered ==
    /\ Len(v_log) >= 1
    /\ v_log[1].site = "oa_primary"
    /\ v_log[1].kind = "ret"
    /\ v_log[1].val # <<>>

C21_State ==
    /\ PrimaryCalls <= DefaultRetryTries
    /\ fn_calls["oa_fallback_try"] <= DefaultRetryTries
    /\ fn_calls["oa_fallback_except"] <= DefaultRetryTries
    /\ FallbackCalls <= 2 * DefaultRetryTries
    /\ CallsLeft >= 0
    /\ v_pc # "threw"
    /\ NotStuck
    /\ PrimaryAnswered =>
          /\ FallbackCalls = 0
          /\ v_pc = "done"
          /\ v_result.response_text = v_log[1].val
    /\ (v_pc = "oa_primary" /\ rt_pc = "returned" /\ rt_result # <<>>) => FallbackCalls = 0

C21_Step ==
    /\ Rank' < Rank
    /\ CallsLeft' <= CallsLeft
    /\ PrimaryCalls' + FallbackCalls' \in {PrimaryCalls + FallbackCalls, PrimaryCalls + FallbackCalls + 1}
    /\ PrimaryCalls' + FallbackCalls' # PrimaryCalls + FallbackCalls => CallsLeft' < CallsLeft

\* C21: one call_openai terminates after at most 3 calls of the primary model and at
\* most 6 calls of the fallback model (3 in the round of the try block, 3 in the round
\* after an exception), whatever the calls return or raise: every step comes nearer to
\* the return and every API call uses up one of the calls left; the fallback model is
\* not called when the primary model returned non-empty text.
C21_BoundedCalls ==
    /\ [](v_vendor = "openai" => C21_State)
    /\ [][v_vendor = "openai" => C21_Step]_vars

C21_Witness ==
    /\ v_pc = "done"
    /\ v_vendor = "openai"
    /\ fn_calls = [retry |-> 0, oa_primary |-> 3, oa_fallback_try |-> 3, oa_fallback_except |-> 3, an_call |-> 0]
    /\ IsStub(v_result.response_text)

====
